---- MODULE Spec2Model ----
(***************************************************************************)
(* Expense tracker back end: the transactions table, the categories table, *)
(* TransactionsService (create / findAll / findOne / update / remove /     *)
(* exportToCsv), CategoriesService and DashboardService, as state machines *)
(* over the two tables.                                                    *)
(*                                                                         *)
(* Conventions                                                             *)
(*   - money: a request carries amount in thousandths of a unit (mills),   *)
(*     the decimal(12,2) column holds hundredths (cents);                  *)
(*   - a date sent by a client is a record [iso, day, time]: iso says the  *)
(*     string passes IsDateString, day is the calendar day, time says the  *)
(*     string also carries a time of day; the date column holds the day;   *)
(*   - text is a sequence of one-character strings;                        *)
(*   - a DTO is a record holding exactly the properties the client sent;   *)
(*   - the tables are the ones TypeORM generates from the entities         *)
(*     (synchronize): the foreign keys exist, the CHECK and UNIQUE         *)
(*     constraints of docs/schema.sql are not relied on.                   *)
(***************************************************************************)
EXTENDS Integers, Sequences, FiniteSets, TLC

VARIABLES
    categories,          \* the categories table: a set of rows
    transactions,        \* the transactions table: a set of rows
    nextTxId,            \* next transaction id to hand out (ids are never reused)
    result,              \* the response in flight to the client, Idle when none
    shadowCategories,    \* the same tables in the run from which u2's requests
    shadowTransactions,  \*   are left out (used by SpecNI only)
    shadowResult,
    inProgress,          \* the update requests between their findOne and their save
    ui                   \* the state of the browser page (used by the page specifications)

storeVars == <<categories, transactions, nextTxId>>
shadowVars == <<shadowCategories, shadowTransactions, shadowResult>>
pageVars == <<inProgress, ui>>
vars == <<categories, transactions, nextTxId, result,
          shadowCategories, shadowTransactions, shadowResult, inProgress, ui>>

----------------------------------------------------------------------------
(* Bounds and program constants *)

MaxTx == 2                  \* transactions ever created in one run

MinAmountMills == 10        \* @Min(0.01)
DefaultPage == 1            \* page = '1'
DefaultLimit == 20          \* limit = '20'
ExportLimit == 10000        \* limit: '10000'

Users == {"u1", "u2"}
Types == {"income", "expense"}
Null == <<"NULL">>          \* SQL NULL in a text column

Idle == [op |-> "none"]

TxIds == 1..MaxTx

----------------------------------------------------------------------------
(* Rows *)

SeedCategories ==
    { [id |-> "c1", userId |-> "u1", name |-> "Food",   type |-> "expense", isDefault |-> FALSE],
      [id |-> "c2", userId |-> "u2", name |-> "Salary", type |-> "income",  isDefault |-> FALSE] }

CategoryIds(cats) == { c.id : c \in cats }

CategoryOf(cats, cid) == CHOOSE c \in cats : c.id = cid

TxFields == {"type", "amount", "date", "categoryId", "description"}

----------------------------------------------------------------------------
(* class-validator decorators of CreateTransactionDto *)

IsIn(v) == v \in Types

\* the validator with @Min(0) in place of @Min(0.01)
IsNumberMin_min0(a) == a >= 0

IsNumberMin(a) == a >= MinAmountMills

IsDateString(d) == d.iso

IsUUID(c) == c # "not-a-uuid"

ValidField(f, v) ==
    CASE f = "type"        -> IsIn(v)
      [] f = "amount"      -> IsNumberMin(v)
      [] f = "date"        -> IsDateString(v)
      [] f = "categoryId"  -> IsUUID(v)
      [] f = "description" -> TRUE

\* ValidationPipe({whitelist, forbidNonWhitelisted}) on a CreateTransactionDto body
ValidCreateDto(dto) ==
    /\ DOMAIN dto \subseteq TxFields
    /\ (TxFields \ {"description"}) \subseteq DOMAIN dto
    /\ \A f \in DOMAIN dto : ValidField(f, dto[f])

\* UpdateTransactionDto extends PartialType(CreateTransactionDto): every property optional
ValidUpdateDto(dto) ==
    /\ DOMAIN dto \subseteq TxFields
    /\ \A f \in DOMAIN dto : ValidField(f, dto[f])

----------------------------------------------------------------------------
(* What the columns keep of the values sent *)

\* the column cutting the extra digits off instead of rounding
ToCents_truncate(mills) == mills \div 10

\* decimal(12,2): PostgreSQL rounds a numeric to the scale, half away from zero
ToCents(mills) == (mills + 5) \div 10

\* date: the calendar day of the string
ToDate(d) == d.day

ColumnValue(f, v) ==
    CASE f = "amount" -> ToCents(v)
      [] f = "date"   -> ToDate(v)
      [] OTHER        -> v

----------------------------------------------------------------------------
(* TransactionsService *)

NewRow(id, userId, dto) ==
    [ id          |-> id,
      userId      |-> userId,
      categoryId  |-> dto.categoryId,
      type        |-> dto.type,
      amount      |-> ColumnValue("amount", dto.amount),
      date        |-> ColumnValue("date", dto.date),
      description |-> IF "description" \in DOMAIN dto THEN dto.description ELSE Null ]

\* create writing the new row in place of the table's rows
TransactionsService_create_replace(cats, txs, id, userId, dto) ==
    IF ~ValidCreateDto(dto)
      THEN [txs |-> txs, res |-> [op |-> "create", user |-> userId, status |-> "ValidationError", dto |-> dto]]
    ELSE IF dto.categoryId \notin CategoryIds(cats)
      THEN [txs |-> txs, res |-> [op |-> "create", user |-> userId, status |-> "InternalError", dto |-> dto]]
    ELSE [txs |-> {NewRow(id, userId, dto)},
          res |-> [op |-> "create", user |-> userId, status |-> "ok", id |-> id, dto |-> dto]]

\* create(userId, dto): repository.create({...dto, userId}) and save (one INSERT)
TransactionsService_create(cats, txs, id, userId, dto) ==
    IF ~ValidCreateDto(dto)
      THEN [txs |-> txs, res |-> [op |-> "create", user |-> userId, status |-> "ValidationError", dto |-> dto]]
    ELSE IF dto.categoryId \notin CategoryIds(cats)
      THEN [txs |-> txs, res |-> [op |-> "create", user |-> userId, status |-> "InternalError", dto |-> dto]]
    ELSE [txs |-> txs \cup {NewRow(id, userId, dto)},
          res |-> [op |-> "create", user |-> userId, status |-> "ok", id |-> id, dto |-> dto]]

\* the lookup with where {id} only
FindOneRows_anyOwner(txs, id, userId) == { t \in txs : t.id = id }

\* findOne(id, userId): where {id, userId}, relations ['category']
FindOneRows(txs, id, userId) == { t \in txs : t.id = id /\ t.userId = userId }

TransactionsService_findOne(cats, txs, id, userId) ==
    IF FindOneRows(txs, id, userId) = {}
      THEN [op |-> "findOne", user |-> userId, id |-> id, status |-> "NotFound"]
    ELSE LET t == CHOOSE r \in FindOneRows(txs, id, userId) : TRUE
         IN [op |-> "findOne", user |-> userId, id |-> id, status |-> "ok",
             row |-> t, category |-> CategoryOf(cats, t.categoryId)]

\* Object.assign(transaction, dto): the properties sent overwrite, the others stay
Assign(row, dto) ==
    [ f \in DOMAIN row |->
        IF f \in DOMAIN dto THEN ColumnValue(f, dto[f]) ELSE row[f] ]

\* save() of an entity whose category relation is loaded (by findOne) and whose
\* categoryId was assigned: which of the two the ORM writes to category_id is
\* decided in the ORM, so both are outcomes
SavedCategoryIds(row, dto) == {row.categoryId, Assign(row, dto).categoryId}

\* update(id, userId, dto): findOne, Object.assign, save; fk is the category_id written
TransactionsService_update(cats, txs, id, userId, dto, fk) ==
    IF ~ValidUpdateDto(dto)
      THEN [txs |-> txs, res |-> [op |-> "update", user |-> userId, id |-> id, status |-> "ValidationError", dto |-> dto]]
    ELSE IF FindOneRows(txs, id, userId) = {}
      THEN [txs |-> txs, res |-> [op |-> "update", user |-> userId, id |-> id, status |-> "NotFound", dto |-> dto]]
    ELSE IF fk \notin CategoryIds(cats)
      THEN [txs |-> txs, res |-> [op |-> "update", user |-> userId, id |-> id, status |-> "InternalError", dto |-> dto]]
    ELSE LET old == CHOOSE r \in FindOneRows(txs, id, userId) : TRUE
             new == [Assign(old, dto) EXCEPT !.categoryId = fk]
         IN [txs |-> (txs \ {old}) \cup {new},
             res |-> [op |-> "update", user |-> userId, id |-> id, status |-> "ok", dto |-> dto]]

\* remove answering a missing row with success
TransactionsService_remove_lenient(txs, id, userId) ==
    [txs |-> txs \ FindOneRows(txs, id, userId),
     res |-> [op |-> "remove", user |-> userId, id |-> id, status |-> "ok"]]

\* remove(id, userId): findOne, repository.remove
TransactionsService_remove(txs, id, userId) ==
    IF FindOneRows(txs, id, userId) = {}
      THEN [txs |-> txs, res |-> [op |-> "remove", user |-> userId, id |-> id, status |-> "NotFound"]]
    ELSE [txs |-> txs \ FindOneRows(txs, id, userId),
          res |-> [op |-> "remove", user |-> userId, id |-> id, status |-> "ok"]]

----------------------------------------------------------------------------
(* JavaScript numbers and strings, as far as findAll uses them *)

Digits == {"0", "1", "2", "3", "4", "5", "6", "7", "8", "9"}

DigitVal(c) ==
    CASE c = "0" -> 0 [] c = "1" -> 1 [] c = "2" -> 2 [] c = "3" -> 3 [] c = "4" -> 4
      [] c = "5" -> 5 [] c = "6" -> 6 [] c = "7" -> 7 [] c = "8" -> 8 [] c = "9" -> 9

NaN == [nan |-> TRUE]
PosInfinity == [inf |-> TRUE]
Finite(n) == [num |-> n]
IsFinite(x) == "num" \in DOMAIN x

RECURSIVE SkipSpaces(_)
SkipSpaces(s) == IF s # <<>> /\ Head(s) = " " THEN SkipSpaces(Tail(s)) ELSE s

RECURSIVE DigitsPrefix(_)
DigitsPrefix(s) ==
    IF s = <<>> \/ Head(s) \notin Digits THEN <<>> ELSE <<Head(s)>> \o DigitsPrefix(Tail(s))

RECURSIVE Decimal(_, _)
Decimal(ds, acc) == IF ds = <<>> THEN acc ELSE Decimal(Tail(ds), acc * 10 + DigitVal(Head(ds)))

\* parseInt(s, 10): leading blanks, an optional sign, then the longest run of digits;
\* NaN when there is none
ParseInt(s) ==
    LET t == SkipSpaces(s)
        neg == t # <<>> /\ Head(t) = "-"
        u == IF t # <<>> /\ Head(t) \in {"-", "+"} THEN Tail(t) ELSE t
        ds == DigitsPrefix(u)
    IN IF ds = <<>> THEN NaN
       ELSE Finite(IF neg THEN 0 - Decimal(ds, 0) ELSE Decimal(ds, 0))

\* (a - 1) * b
SkipOf(pageNum, limitNum) ==
    IF IsFinite(pageNum) /\ IsFinite(limitNum)
      THEN Finite((pageNum.num - 1) * limitNum.num)
      ELSE NaN

\* Math.ceil(total / limitNum) for an integer total >= 0 and a finite limitNum
MathCeilDiv(total, limitNum) ==
    IF limitNum = 0 THEN (IF total = 0 THEN NaN ELSE PosInfinity)
    ELSE IF limitNum > 0 THEN Finite((total + limitNum - 1) \div limitNum)
    ELSE Finite(0 - (total \div (0 - limitNum)))

LowerChar(c) ==
    CASE c = "A" -> "a" [] c = "B" -> "b" [] OTHER -> c

\* s LIKE p without regard to case: % any run, _ any one character, \ the escape
RECURSIVE ILike(_, _)
ILike(s, p) ==
    IF p = <<>> THEN s = <<>>
    ELSE IF Head(p) = "%" THEN ILike(s, Tail(p)) \/ (s # <<>> /\ ILike(Tail(s), p))
    ELSE IF s = <<>> THEN FALSE
    ELSE IF Head(p) = "_" THEN ILike(Tail(s), Tail(p))
    ELSE IF Head(p) = "\\" /\ Len(p) >= 2
         THEN LowerChar(Head(s)) = LowerChar(p[2]) /\ ILike(Tail(s), Tail(Tail(p)))
    ELSE LowerChar(Head(s)) = LowerChar(Head(p)) /\ ILike(Tail(s), Tail(p))

----------------------------------------------------------------------------
(* TransactionsService.findAll *)

FilterFields == {"type", "categoryId", "startDate", "endDate", "search", "page", "limit"}

\* if (x): the property was sent and is not the empty string (only search can be
\* empty: the validators of the others reject '')
Given(f, k) == k \in DOMAIN f /\ (k = "search" => f[k] # <<>>)

\* the query without .where('transaction.userId = :userId')
FindAllBase_anyUser(txs, userId) == txs

\* createQueryBuilder ... .where('transaction.userId = :userId')
FindAllBase(txs, userId) == { t \in txs : t.userId = userId }

TypeWhere(t, f) == Given(f, "type") => t.type = f.type

CategoryWhere(t, f) == Given(f, "categoryId") => t.categoryId = f.categoryId

DateWhere(t, f) ==
    IF Given(f, "startDate") /\ Given(f, "endDate")
      THEN ToDate(f.startDate) <= t.date /\ t.date <= ToDate(f.endDate)
    ELSE IF Given(f, "startDate") THEN t.date >= ToDate(f.startDate)
    ELSE IF Given(f, "endDate") THEN t.date <= ToDate(f.endDate)
    ELSE TRUE

\* description ILIKE '%' || search || '%' (NULL never matches)
SearchWhere(t, f) ==
    Given(f, "search") =>
        t.description # Null /\ ILike(t.description, <<"%">> \o f.search \o <<"%">>)

FindAllRows(txs, userId, f) ==
    { t \in FindAllBase(txs, userId) :
        TypeWhere(t, f) /\ CategoryWhere(t, f) /\ DateWhere(t, f) /\ SearchWhere(t, f) }

\* every way of listing the rows of S once each
Listings(S) ==
    { s \in [1..Cardinality(S) -> S] : \A i, j \in 1..Cardinality(S) : i # j => s[i] # s[j] }

\* ORDER BY transaction.date DESC: rows of one date come in the order the database likes
DateDescListings(S) ==
    { s \in Listings(S) : \A i, j \in 1..Len(s) : i < j => s[i].date >= s[j].date }

PageParam(f) == IF "page" \in DOMAIN f THEN f.page ELSE <<"1">>
LimitParam(f) == IF "limit" \in DOMAIN f THEN f.limit ELSE <<"2", "0">>

\* the window with skip = page * limit
Window_skipPage(listing, skip, take) ==
    SubSeq(listing, skip + take + 1, IF skip + 2 * take < Len(listing) THEN skip + 2 * take ELSE Len(listing))

\* .skip(skip).take(take) of a listing
Window(listing, skip, take) ==
    SubSeq(listing, skip + 1, IF skip + take < Len(listing) THEN skip + take ELSE Len(listing))

\* the rows a query with take = 0 may give: the ORM decides whether LIMIT 0 is sent
TakeZeroData(listing) == {<<>>, listing}

\* what findAll can return for a request: one response for each order the database may
\* give to rows of equal date
FindAllResponses(txs, userId, f) ==
    LET pageNum == ParseInt(PageParam(f))
        limitNum == ParseInt(LimitParam(f))
        skip == SkipOf(pageNum, limitNum)
        rows == FindAllRows(txs, userId, f)
        total == Cardinality(rows)
        failed == [op |-> "findAll", user |-> userId, filters |-> f, status |-> "InternalError"]
        ok(data) == [op |-> "findAll", user |-> userId, filters |-> f, status |-> "ok",
                     data |-> data, total |-> total, page |-> pageNum.num, limit |-> limitNum.num,
                     totalPages |-> MathCeilDiv(total, limitNum.num)]
    IN IF ~IsFinite(skip) THEN {failed}                        \* skip(NaN) / take(NaN) rejected
       ELSE IF skip.num < 0 \/ limitNum.num < 0 THEN {failed}  \* negative OFFSET / LIMIT rejected
       ELSE IF limitNum.num = 0
         THEN UNION { { ok(d) : d \in TakeZeroData(l) } : l \in DateDescListings(rows) }
       ELSE { ok(Window(l, skip.num, limitNum.num)) : l \in DateDescListings(rows) }

DoFindAll(userId, f) ==
    /\ result = Idle
    /\ result' \in FindAllResponses(transactions, userId, f)
    /\ UNCHANGED storeVars

\* exportToCsv(userId, filters): findAll with limit '10000', then the header line and
\* one line per row. The output is text: a sequence of characters, where the text of a
\* date, a type, a category name and an amount (none of which holds a comma, a quote
\* or a line break) counts as one character.
CsvHeader == <<"Date", ",", "Type", ",", "Category", ",", "Amount", ",", "Description", "\n">>

\* the date column as 'YYYY-MM-DD' and the decimal(12,2) column as the driver returns
\* it, each a text of its own for each value
DateText(day) == "date " \o ToString(day)
AmountText(cents) == "cents " \o ToString(cents)

\* [date, type, category.name, amount, `"${description || ''}"`].join(',') + '\n'
CsvLine(cats, t) ==
    << DateText(t.date), ",", t.type, ",", CategoryOf(cats, t.categoryId).name, ",",
       AmountText(t.amount), ",", "\"" >>
    \o (IF t.description = Null THEN <<>> ELSE t.description)
    \o << "\"", "\n" >>

RECURSIVE CsvLines(_, _)
CsvLines(cats, rows) ==
    IF rows = <<>> THEN <<>> ELSE CsvLine(cats, Head(rows)) \o CsvLines(cats, Tail(rows))

ExportFilters(f) ==
    [ k \in DOMAIN f \cup {"limit"} |-> IF k = "limit" THEN <<"1", "0", "0", "0", "0">> ELSE f[k] ]

ExportResponses(cats, txs, userId, f) ==
    { IF r.status = "ok"
        THEN [op |-> "exportToCsv", user |-> userId, filters |-> f, status |-> "ok",
              rows |-> r.data,
              csv |-> CsvHeader \o CsvLines(cats, r.data)]
        ELSE [op |-> "exportToCsv", user |-> userId, filters |-> f, status |-> r.status]
      : r \in FindAllResponses(txs, userId, ExportFilters(f)) }

DoExportToCsv(userId, f) ==
    /\ result = Idle
    /\ result' \in ExportResponses(categories, transactions, userId, f)
    /\ UNCHANGED storeVars

----------------------------------------------------------------------------
(* DashboardService *)

\* reduce((sum, t) => sum + Number(t.amount), 0) / SUM(amount), in whole cents
RECURSIVE SumAmount(_)
SumAmount(S) ==
    IF S = {} THEN 0
    ELSE LET t == CHOOSE x \in S : TRUE IN t.amount + SumAmount(S \ {t})

\* if (startDate && endDate) ... BETWEEN; a bound given alone is not applied
BetweenWhere(t, q) ==
    ("startDate" \in DOMAIN q /\ "endDate" \in DOMAIN q) =>
        (ToDate(q.startDate) <= t.date /\ t.date <= ToDate(q.endDate))

\* the query of getSummary without its date condition
SummaryRows_noRange(txs, userId, q) == { t \in txs : t.userId = userId }

SummaryRows(txs, userId, q) == { t \in txs : t.userId = userId /\ BetweenWhere(t, q) }

DashboardService_getSummary(txs, userId, q) ==
    LET rows == SummaryRows(txs, userId, q)
        totalIncome == SumAmount({ t \in rows : t.type = "income" })
        totalExpense == SumAmount({ t \in rows : t.type = "expense" })
    IN [op |-> "getSummary", user |-> userId, query |-> q, status |-> "ok",
        totalIncome |-> totalIncome,
        totalExpense |-> totalExpense,
        netBalance |-> totalIncome - totalExpense,
        transactionCount |-> Cardinality(rows)]

\* dates are days of one year of 365 days, day 1 being 1 January
MonthStarts == <<1, 32, 60, 91, 121, 152, 182, 213, 244, 274, 305, 335>>

MonthOf(day) == Cardinality({ m \in 1..12 : MonthStarts[m] <= day })

\* TO_CHAR(date, fmt): 'YYYY-MM-DD' the day, 'YYYY-"W"WW' the week of the year counted
\* in sevens from 1 January, 'YYYY-MM' the month
Bucket(period, day) ==
    CASE period = "daily"  -> day
      [] period = "weekly" -> ((day - 1) \div 7) + 1
      [] OTHER             -> MonthOf(day)

TrendsRows(txs, userId) == { t \in txs : t.userId = userId }

\* the grouping by period only: both types added into each row of a bucket
TrendsGroups_mergedTypes(txs, userId, period) ==
    { [period |-> b, type |-> ty,
       total |-> SumAmount({ t \in TrendsRows(txs, userId) : Bucket(period, t.date) = b })]
      : <<b, ty>> \in { <<Bucket(period, t.date), t.type>> : t \in TrendsRows(txs, userId) } }

TrendsGroups(txs, userId, period) ==
    { [period |-> b, type |-> ty,
       total |-> SumAmount({ t \in TrendsRows(txs, userId) :
                               Bucket(period, t.date) = b /\ t.type = ty })]
      : <<b, ty>> \in { <<Bucket(period, t.date), t.type>> : t \in TrendsRows(txs, userId) } }

\* getTrends(userId, period): GROUP BY period, type ORDER BY period ASC
DashboardService_getTrends(txs, userId, period) ==
    { [op |-> "getTrends", user |-> userId, period |-> period, status |-> "ok", trends |-> l]
      : l \in { s \in Listings(TrendsGroups(txs, userId, period)) :
                  \A i, j \in 1..Len(s) : i < j => s[i].period <= s[j].period } }

\* the query of getCategoryBreakdown without its type condition
BreakdownRows_noType(txs, userId, q) == { t \in txs : t.userId = userId /\ BetweenWhere(t, q) }

BreakdownRows(txs, userId, q) ==
    { t \in txs : /\ t.userId = userId
                  /\ ("type" \in DOMAIN q => t.type = q.type)
                  /\ BetweenWhere(t, q) }

\* the breakdown without GROUP BY: one row per transaction
BreakdownGroups_perRow(cats, txs, userId, q) ==
    { [categoryId |-> t.categoryId, categoryName |-> CategoryOf(cats, t.categoryId).name,
       total |-> t.amount, count |-> 1]
      : t \in BreakdownRows(txs, userId, q) }

BreakdownGroups(cats, txs, userId, q) ==
    { [categoryId |-> c, categoryName |-> CategoryOf(cats, c).name,
       total |-> SumAmount({ t \in BreakdownRows(txs, userId, q) : t.categoryId = c }),
       count |-> Cardinality({ t \in BreakdownRows(txs, userId, q) : t.categoryId = c })]
      : c \in { t.categoryId : t \in BreakdownRows(txs, userId, q) } }

\* getCategoryBreakdown(userId, type, startDate, endDate): GROUP BY category ORDER BY total DESC
DashboardService_getCategoryBreakdown(cats, txs, userId, q) ==
    { [op |-> "getCategoryBreakdown", user |-> userId, query |-> q, status |-> "ok", breakdown |-> l]
      : l \in { s \in Listings(BreakdownGroups(cats, txs, userId, q)) :
                  \A i, j \in 1..Len(s) : i < j => s[i].total >= s[j].total } }

DoGetSummary(userId, q) ==
    /\ result = Idle
    /\ result' = DashboardService_getSummary(transactions, userId, q)
    /\ UNCHANGED storeVars

DoGetTrends(userId, period) ==
    /\ result = Idle
    /\ result' \in DashboardService_getTrends(transactions, userId, period)
    /\ UNCHANGED storeVars

DoGetCategoryBreakdown(userId, q) ==
    /\ result = Idle
    /\ result' \in DashboardService_getCategoryBreakdown(categories, transactions, userId, q)
    /\ UNCHANGED storeVars

----------------------------------------------------------------------------
(* CategoriesService: update and remove *)

\* findOne(id, userId): where {id, userId}
CategoryRows(cats, id, userId) == { c \in cats : c.id = id /\ c.userId = userId }

\* UpdateCategoryDto: the rules of CreateCategoryDto, every property optional
ValidCategoryDto(dto) ==
    /\ DOMAIN dto \subseteq {"name", "type"}
    /\ "name" \in DOMAIN dto => dto.name # ""
    /\ "type" \in DOMAIN dto => IsIn(dto.type)

\* update(id, userId, dto): findOne, Forbidden for a default category, Object.assign, save
CategoriesService_update(cats, id, userId, dto) ==
    IF ~ValidCategoryDto(dto)
      THEN [cats |-> cats, res |-> [op |-> "categories.update", user |-> userId, id |-> id, status |-> "ValidationError", dto |-> dto]]
    ELSE IF CategoryRows(cats, id, userId) = {}
      THEN [cats |-> cats, res |-> [op |-> "categories.update", user |-> userId, id |-> id, status |-> "NotFound", dto |-> dto]]
    ELSE LET old == CHOOSE c \in CategoryRows(cats, id, userId) : TRUE
             new == [ f \in DOMAIN old |-> IF f \in DOMAIN dto THEN dto[f] ELSE old[f] ]
         IN IF old.isDefault
              THEN [cats |-> cats, res |-> [op |-> "categories.update", user |-> userId, id |-> id, status |-> "Forbidden", dto |-> dto]]
            ELSE [cats |-> (cats \ {old}) \cup {new},
                  res |-> [op |-> "categories.update", user |-> userId, id |-> id, status |-> "ok", dto |-> dto]]

\* CreateCategoryDto: name and type required (color and icon, optional, left out)
ValidCreateCategoryDto(dto) ==
    /\ {"name", "type"} \subseteq DOMAIN dto
    /\ ValidCategoryDto(dto)

\* create(userId, dto): repository.create({...dto, userId}) and save; is_default takes
\* its column default
CategoriesService_create(cats, id, userId, dto) ==
    IF ~ValidCreateCategoryDto(dto)
      THEN [cats |-> cats, res |-> [op |-> "categories.create", user |-> userId, status |-> "ValidationError", dto |-> dto]]
    ELSE [cats |-> cats \cup { [id |-> id, userId |-> userId, name |-> dto.name,
                                type |-> dto.type, isDefault |-> FALSE] },
          res |-> [op |-> "categories.create", user |-> userId, status |-> "ok", id |-> id, dto |-> dto]]

\* remove without the isDefault test
CategoriesService_remove_anyCategory(cats, txs, id, userId) ==
    IF CategoryRows(cats, id, userId) = {}
      THEN [cats |-> cats, res |-> [op |-> "categories.remove", user |-> userId, id |-> id, status |-> "NotFound"]]
    ELSE IF \E t \in txs : t.categoryId = id
      THEN [cats |-> cats, res |-> [op |-> "categories.remove", user |-> userId, id |-> id, status |-> "InternalError"]]
    ELSE [cats |-> cats \ CategoryRows(cats, id, userId),
          res |-> [op |-> "categories.remove", user |-> userId, id |-> id, status |-> "ok"]]

\* remove(id, userId): findOne, Forbidden for a default category, repository.remove;
\* the DELETE fails on the foreign key of transactions.category_id while a transaction
\* of any user names the category
CategoriesService_remove(cats, txs, id, userId) ==
    IF CategoryRows(cats, id, userId) = {}
      THEN [cats |-> cats, res |-> [op |-> "categories.remove", user |-> userId, id |-> id, status |-> "NotFound"]]
    ELSE IF \E c \in CategoryRows(cats, id, userId) : c.isDefault
      THEN [cats |-> cats, res |-> [op |-> "categories.remove", user |-> userId, id |-> id, status |-> "Forbidden"]]
    ELSE IF \E t \in txs : t.categoryId = id
      THEN [cats |-> cats, res |-> [op |-> "categories.remove", user |-> userId, id |-> id, status |-> "InternalError"]]
    ELSE [cats |-> cats \ CategoryRows(cats, id, userId),
          res |-> [op |-> "categories.remove", user |-> userId, id |-> id, status |-> "ok"]]

----------------------------------------------------------------------------
(* The requests of the command service as actions. A request is served only
   when no response is in flight; Respond hands the response to the client. *)

D1 == [iso |-> TRUE, day |-> 1, time |-> FALSE]
D2T == [iso |-> TRUE, day |-> 2, time |-> TRUE]
BadDate == [iso |-> FALSE, day |-> 0, time |-> FALSE]
D2 == [iso |-> TRUE, day |-> 2, time |-> FALSE]
D3 == [iso |-> TRUE, day |-> 3, time |-> FALSE]

AmountInputs == {0, 10, 15}
CategoryInputs == {"c1", "c2", "c9"}
DescriptionInputs == {<<"a">>}

CreateDtos ==
    { [type |-> "expense", amount |-> a, date |-> D1, categoryId |-> c]
        : a \in AmountInputs, c \in CategoryInputs }
    \cup
    { [type |-> "expense", amount |-> a, date |-> D1, categoryId |-> c, description |-> d]
        : a \in AmountInputs, c \in CategoryInputs, d \in DescriptionInputs }
    \cup
    { [type |-> "transfer", amount |-> 10, date |-> D1, categoryId |-> "c1"],
      [type |-> "expense", amount |-> 10, date |-> BadDate, categoryId |-> "c1"],
      [type |-> "expense", amount |-> 10, date |-> D1, categoryId |-> "not-a-uuid"],
      [type |-> "expense", amount |-> 10, date |-> D1] }

UpdateDtos ==
    { [amount |-> a] : a \in AmountInputs }
    \cup { [categoryId |-> c] : c \in CategoryInputs }
    \cup { [description |-> d] : d \in DescriptionInputs }
    \cup { [amount |-> 15, description |-> <<"a">>], [type |-> "transfer"] }

\* ids a client may name: those handed out so far and one that never existed
RequestIds == 1..(MaxTx + 1)

DoCreate(userId, dto) ==
    /\ result = Idle
    /\ nextTxId <= MaxTx
    /\ LET r == TransactionsService_create(categories, transactions, nextTxId, userId, dto)
       IN /\ transactions' = r.txs
          /\ result' = r.res
          /\ nextTxId' = IF r.res.status = "ok" THEN nextTxId + 1 ELSE nextTxId
    /\ UNCHANGED categories

DoFindOne(id, userId) ==
    /\ result = Idle
    /\ result' = TransactionsService_findOne(categories, transactions, id, userId)
    /\ UNCHANGED storeVars

DoUpdate(id, userId, dto) ==
    /\ result = Idle
    /\ \E fk \in (IF FindOneRows(transactions, id, userId) = {} \/ ~ValidUpdateDto(dto)
                    THEN {"c1"}
                    ELSE SavedCategoryIds(CHOOSE r \in FindOneRows(transactions, id, userId) : TRUE, dto)) :
         LET r == TransactionsService_update(categories, transactions, id, userId, dto, fk)
         IN /\ transactions' = r.txs
            /\ result' = r.res
    /\ UNCHANGED <<categories, nextTxId>>

DoRemove(id, userId) ==
    /\ result = Idle
    /\ LET r == TransactionsService_remove(transactions, id, userId)
       IN /\ transactions' = r.txs
          /\ result' = r.res
    /\ UNCHANGED <<categories, nextTxId>>

TxCreate == (\E u \in Users, dto \in CreateDtos : DoCreate(u, dto)) /\ UNCHANGED <<shadowVars, pageVars>>

TxFindOne == (\E u \in Users, id \in RequestIds : DoFindOne(id, u)) /\ UNCHANGED <<shadowVars, pageVars>>

TxUpdate == (\E u \in Users, id \in RequestIds, dto \in UpdateDtos : DoUpdate(id, u, dto))
            /\ UNCHANGED <<shadowVars, pageVars>>

TxRemove == (\E u \in Users, id \in RequestIds : DoRemove(id, u)) /\ UNCHANGED <<shadowVars, pageVars>>

Respond ==
    /\ result # Idle
    /\ result' = Idle
    /\ UNCHANGED storeVars
    /\ UNCHANGED <<shadowVars, pageVars>>

InitStore ==
    /\ categories = SeedCategories
    /\ transactions = {}
    /\ nextTxId = 1
    /\ result = Idle

\* no update in progress, no page open
NoneInProgress == {}
NoPage == [page |-> "none"]

InitShadow ==
    /\ shadowCategories = SeedCategories
    /\ shadowTransactions = {}
    /\ shadowResult = Idle
    /\ inProgress = NoneInProgress
    /\ ui = NoPage

Init == InitStore /\ InitShadow

Next == TxCreate \/ TxFindOne \/ TxUpdate \/ TxRemove \/ Respond

Spec == Init /\ [][Next]_vars

----------------------------------------------------------------------------
(* Properties of the command service, checked under Spec *)

\* an id no transaction ever has
MissingId == MaxTx + 1

IsTxResult(r) == r # Idle /\ r.op \in {"findOne", "update", "remove"}

\* the response the same request gives when it names MissingId, with the id it was asked for
AsForMissingId(r) ==
    CASE r.op = "findOne" ->
           [TransactionsService_findOne(categories, transactions, MissingId, r.user) EXCEPT !.id = r.id]
      [] r.op = "update" ->
           [TransactionsService_update(categories, transactions, MissingId, r.user, r.dto, "c1").res
              EXCEPT !.id = r.id]
      [] r.op = "remove" ->
           [TransactionsService_remove(transactions, MissingId, r.user).res EXCEPT !.id = r.id]

ForeignRequest(r) ==
    /\ IsTxResult(r)
    /\ \E t \in transactions : t.id = r.id /\ t.userId # r.user

\* C2: findOne, update and remove of a transaction owned by another user answer exactly
\* as for an id that does not exist (NotFound for every body that passes validation)
\* and change neither table.
C2_ForeignIsNotFound ==
    [][ ForeignRequest(result') =>
          /\ result' = AsForMissingId(result')
          /\ result'.status # "ok"
          /\ (result'.op = "update" /\ ~ValidUpdateDto(result'.dto)) \/ result'.status = "NotFound"
          /\ transactions' = transactions
          /\ categories' = categories ]_vars

C2_Witness ==
    /\ IsTxResult(result)
    /\ result.op = "update"
    /\ result.status = "NotFound"
    /\ \E t \in transactions : t.id = result.id /\ t.userId # result.user

\* C3: every stored transaction's categoryId names a category of the transaction's owner.
C3_CategoryOfOwner ==
    \A t \in transactions :
        \E c \in categories : c.id = t.categoryId /\ c.userId = t.userId

\* C9: every stored transaction has amount > 0.
C9_AmountPositive == \A t \in transactions : t.amount > 0

C9_Witness ==
    /\ result # Idle
    /\ result.op = "update"
    /\ result.status = "ok"
    /\ "amount" \in DOMAIN result.dto
    /\ \E t \in transactions : t.id = result.id /\ t.amount = ToCents(result.dto.amount)

----------------------------------------------------------------------------
(* SpecRT: create followed by findOne, over bodies that vary in every property *)

RtCreateDtos ==
    { [type |-> t, amount |-> a, date |-> d, categoryId |-> c]
        : t \in Types, a \in {10, 15}, d \in {D1, D2T}, c \in {"c1", "c2"} }
    \cup
    { [type |-> t, amount |-> a, date |-> d, categoryId |-> c, description |-> <<"a">>]
        : t \in Types, a \in {10, 15}, d \in {D1, D2T}, c \in {"c1", "c2"} }

RtCreate == (\E u \in Users, dto \in RtCreateDtos : DoCreate(u, dto)) /\ UNCHANGED <<shadowVars, pageVars>>

RtFindOne == (\E u \in Users, id \in RequestIds : DoFindOne(id, u)) /\ UNCHANGED <<shadowVars, pageVars>>

NextRT == RtCreate \/ RtFindOne \/ Respond

SpecRT == Init /\ [][NextRT]_vars

CreatedOk(r) == r # Idle /\ r.op = "create" /\ r.status = "ok"

\* the description a body carries, NULL when it carries none
SentDescription(dto) == IF "description" \in DOMAIN dto THEN dto.description ELSE Null

\* C10 as stated: findOne after create returns exactly the values sent (the amount sent,
\* the date string sent).
C10_RoundTripExact ==
    CreatedOk(result) =>
        LET r == TransactionsService_findOne(categories, transactions, result.id, result.user)
        IN /\ r.status = "ok"
           /\ r.row.userId = result.user
           /\ r.row.type = result.dto.type
           /\ r.row.categoryId = result.dto.categoryId
           /\ r.row.description = SentDescription(result.dto)
           /\ r.row.amount * 10 = result.dto.amount
           /\ r.row.date = result.dto.date.day /\ ~result.dto.date.time

\* C10 (amended): findOne after create returns the type, categoryId and description sent,
\* userId = U, the amount sent rounded to two decimals (half up) and the calendar day of
\* the date sent; amount and date are exactly the ones sent when the amount has at most
\* two decimals and the date string carries no time.
C10_RoundTrip ==
    CreatedOk(result) =>
        LET r == TransactionsService_findOne(categories, transactions, result.id, result.user)
        IN /\ r.status = "ok"
           /\ r.row.id = result.id
           /\ r.row.userId = result.user
           /\ r.row.type = result.dto.type
           /\ r.row.categoryId = result.dto.categoryId
           /\ r.category.id = result.dto.categoryId
           /\ r.row.description = SentDescription(result.dto)
           /\ r.row.amount * 10 > result.dto.amount - 5
           /\ r.row.amount * 10 <= result.dto.amount + 5
           /\ (result.dto.amount % 10 = 0 => r.row.amount * 10 = result.dto.amount)
           /\ r.row.date = result.dto.date.day

C10_Witness ==
    /\ CreatedOk(result)
    /\ result.dto.amount % 10 # 0
    /\ result.dto.date.time
    /\ "description" \in DOMAIN result.dto
    /\ Cardinality(transactions) = 2

----------------------------------------------------------------------------
(* SpecPage: listing with page and limit over rows that differ in owner and date *)

PgCreateDtos ==
    { [type |-> "expense", amount |-> 10, date |-> d, categoryId |-> "c1"] : d \in {D1, D2T} }

PageInputs == { <<"1">>, <<"2">>, <<"3">>, <<"0">>, <<"-", "1">>, <<"x">>, <<"2", "x">> }
LimitInputs == { <<"1">>, <<"2">>, <<"3">>, <<"0">>, <<"-", "1">>, <<"x">>, <<" ", "2">> }

PgFilters ==
    { [page |-> pg, limit |-> lm] : pg \in PageInputs, lm \in LimitInputs }
    \cup { [page |-> pg] : pg \in PageInputs }
    \cup { [limit |-> lm] : lm \in LimitInputs }
    \cup { [type |-> "expense"] }

PgCreate == (\E u \in Users, dto \in PgCreateDtos : DoCreate(u, dto)) /\ UNCHANGED <<shadowVars, pageVars>>

PgFindAll == (\E u \in Users, f \in PgFilters : DoFindAll(u, f)) /\ UNCHANGED <<shadowVars, pageVars>>

NextPage == PgCreate \/ PgFindAll \/ Respond

SpecPage == Init /\ [][NextPage]_vars

Listed(r) == r # Idle /\ r.op = "findAll" /\ r.status = "ok"

\* the transactions of the caller that satisfy the criteria of a request, as the
\* specification states them: exact type and category, inclusive date bounds, plain
\* substring of the description without regard to case
RECURSIVE IsPrefixNoCase(_, _)
IsPrefixNoCase(p, s) ==
    \/ p = <<>>
    \/ /\ s # <<>>
       /\ LowerChar(Head(p)) = LowerChar(Head(s))
       /\ IsPrefixNoCase(Tail(p), Tail(s))

RECURSIVE ContainsNoCase(_, _)
ContainsNoCase(s, p) ==
    \/ IsPrefixNoCase(p, s)
    \/ (s # <<>> /\ ContainsNoCase(Tail(s), p))

Satisfies(t, f) ==
    /\ "type" \in DOMAIN f => t.type = f.type
    /\ "categoryId" \in DOMAIN f => t.categoryId = f.categoryId
    /\ "startDate" \in DOMAIN f => t.date >= f.startDate.day
    /\ "endDate" \in DOMAIN f => t.date <= f.endDate.day
    /\ "search" \in DOMAIN f =>
          ContainsNoCase(IF t.description = Null THEN <<>> ELSE t.description, f.search)

MatchingOf(userId, f) == { t \in transactions : t.userId = userId /\ Satisfies(t, f) }

Min2(a, b) == IF a < b THEN a ELSE b
Max2(a, b) == IF a > b THEN a ELSE b

\* a request whose page and limit parse to integers >= 1
PagedRequest(r) ==
    /\ r # Idle /\ r.op = "findAll"
    /\ IsFinite(ParseInt(PageParam(r.filters))) /\ ParseInt(PageParam(r.filters)).num >= 1
    /\ IsFinite(ParseInt(LimitParam(r.filters))) /\ ParseInt(LimitParam(r.filters)).num >= 1

\* C6: for page >= 1 and limit >= 1, findAll answers (never an error) with the rows at
\* positions (page-1)*limit+1 .. page*limit of a date-descending list of the matching
\* transactions, so data has min(limit, max(0, total-(page-1)*limit)) rows; a page beyond
\* totalPages gives an empty data with the right total and totalPages.
C6_PageWindow ==
    PagedRequest(result) =>
        LET m == MatchingOf(result.user, result.filters)
            n == Cardinality(m)
        IN /\ result.status = "ok"
           /\ result.total = n
           /\ \E l \in [1..n -> m] :
                /\ \A i, j \in 1..n : i < j => l[i] # l[j] /\ l[i].date >= l[j].date
                /\ Len(result.data) = Min2(result.limit, Max2(0, n - (result.page - 1) * result.limit))
                /\ \A k \in 1..Len(result.data) :
                     result.data[k] = l[(result.page - 1) * result.limit + k]
           /\ IsFinite(result.totalPages)
           /\ (result.page > result.totalPages.num =>
                 /\ result.data = <<>>
                 /\ result.totalPages.num * result.limit >= n
                 /\ (result.totalPages.num - 1) * result.limit < n)

C6_Witness ==
    /\ PagedRequest(result)
    /\ result.status = "ok"
    /\ result.page = 2 /\ result.limit = 1 /\ result.total = 2
    /\ Len(result.data) = 1

\* a page beyond the last one was asked for and answered
C6_WitnessBeyond ==
    /\ PagedRequest(result)
    /\ result.status = "ok"
    /\ result.total = 2 /\ result.page = 3 /\ result.limit = 1
    /\ result.data = <<>>

\* C7: in every response of findAll, totalPages is the least integer k with
\* k * limit >= total, for the limit echoed, and is 0 when total is 0.
C7_TotalPagesCeil ==
    Listed(result) =>
        /\ IsFinite(result.totalPages)
        /\ result.totalPages.num * result.limit >= result.total
        /\ (result.totalPages.num - 1) * result.limit < result.total
        /\ (result.total = 0 => result.totalPages.num = 0)

\* C8: the rows of a response are in non-increasing date order and rows of equal date
\* are in insertion (id) order.
C8_DateThenIdOrder ==
    Listed(result) =>
        \A i, j \in 1..Len(result.data) :
            i < j =>
                \/ result.data[i].date > result.data[j].date
                \/ /\ result.data[i].date = result.data[j].date
                   /\ result.data[i].id < result.data[j].id

----------------------------------------------------------------------------
(* SpecFilter: listing under every combination of the five criteria *)

FlCreateDtos ==
    { [type |-> t, amount |-> 10, date |-> d, categoryId |-> c]
        : t \in Types, d \in {D1, D2, D3}, c \in {"c1", "c2"} }
    \cup
    { [type |-> t, amount |-> 10, date |-> d, categoryId |-> c, description |-> <<"A", "b">>]
        : t \in Types, d \in {D1, D2, D3}, c \in {"c1", "c2"} }

SearchInputs == { <<>>, <<"a">>, <<"B">>, <<"a", "b">>, <<"b", "a">>, <<"_">>, <<"%">> }

\* the part of a record on the properties in ks
Pick(rec, ks) == [ k \in ks |-> rec[k] ]

AllCriteria ==
    [type |-> "expense", categoryId |-> "c1", startDate |-> D2, endDate |-> D2, search |-> <<"a">>]

FlFilters ==
    { Pick(AllCriteria, ks) : ks \in (SUBSET DOMAIN AllCriteria) \ {{}} }
    \cup { [search |-> q] : q \in SearchInputs }
    \cup { [type |-> "income", page |-> <<"2">>, limit |-> <<"1">>],
           [type |-> "income", limit |-> <<"1">>],
           [page |-> <<"1">>] }

FlCreate == (\E u \in Users, dto \in FlCreateDtos : DoCreate(u, dto)) /\ UNCHANGED <<shadowVars, pageVars>>

FlFindAll == (\E u \in Users, f \in FlFilters : DoFindAll(u, f)) /\ UNCHANGED <<shadowVars, pageVars>>

NextFilter == FlCreate \/ FlFindAll \/ Respond

SpecFilter == Init /\ [][NextFilter]_vars

\* C5: total is the number of the caller's transactions that satisfy all the criteria
\* supplied (exact type and category, inclusive date bounds given alone or together,
\* plain substring of the description without regard to case), whatever page and limit.
C5_TotalCountsMatching ==
    Listed(result) => result.total = Cardinality(MatchingOf(result.user, result.filters))

----------------------------------------------------------------------------
(* SpecQuery: every read request, over rows of both users *)

QCreateDtos ==
    { [type |-> t, amount |-> 10, date |-> d, categoryId |-> c]
        : t \in Types, d \in {D1, D2}, c \in {"c1", "c2"} }

QFilters ==
    { Pick([type |-> "expense", categoryId |-> "c2", startDate |-> D2], ks)
        : ks \in (SUBSET {"type", "categoryId", "startDate"}) \ {{}} }
    \cup { [endDate |-> D1], [search |-> <<"%">>], [page |-> <<"2">>, limit |-> <<"1">>],
           [limit |-> <<"0">>], [page |-> <<"1">>] }

QRanges == { [startDate |-> D1, endDate |-> D1], [startDate |-> D2], [endDate |-> D1],
             [startDate |-> D1, endDate |-> D2] }

QBreakdowns ==
    QRanges \cup { [type |-> t] : t \in Types }
            \cup { [type |-> "income", startDate |-> D2, endDate |-> D2] }

Periods == {"daily", "weekly", "monthly"}

QCreate == (\E u \in Users, dto \in QCreateDtos : DoCreate(u, dto)) /\ UNCHANGED <<shadowVars, pageVars>>

QFindAll == (\E u \in Users, f \in QFilters : DoFindAll(u, f)) /\ UNCHANGED <<shadowVars, pageVars>>

QExportToCsv == (\E u \in Users, f \in QFilters : DoExportToCsv(u, f)) /\ UNCHANGED <<shadowVars, pageVars>>

QGetSummary == (\E u \in Users, q \in QRanges : DoGetSummary(u, q)) /\ UNCHANGED <<shadowVars, pageVars>>

QGetTrends == (\E u \in Users, p \in Periods : DoGetTrends(u, p)) /\ UNCHANGED <<shadowVars, pageVars>>

QGetCategoryBreakdown ==
    (\E u \in Users, q \in QBreakdowns : DoGetCategoryBreakdown(u, q)) /\ UNCHANGED <<shadowVars, pageVars>>

NextQuery ==
    QCreate \/ QFindAll \/ QExportToCsv \/ QGetSummary \/ QGetTrends \/ QGetCategoryBreakdown
    \/ Respond

SpecQuery == Init /\ [][NextQuery]_vars

OwnTransactions(userId) == { t \in transactions : t.userId = userId }

\* C1: the rows findAll returns and exportToCsv exports all belong to the caller, and
\* getSummary, getTrends and getCategoryBreakdown answer as they would if the table held
\* the caller's transactions only.
C1_OnlyOwnRows ==
    result # Idle =>
        /\ (result.op = "findAll" /\ result.status = "ok") =>
              \A i \in 1..Len(result.data) :
                  result.data[i] \in transactions /\ result.data[i].userId = result.user
        /\ (result.op = "exportToCsv" /\ result.status = "ok") =>
              \A i \in 1..Len(result.rows) :
                  result.rows[i] \in transactions /\ result.rows[i].userId = result.user
        /\ result.op = "getSummary" =>
              result = DashboardService_getSummary(OwnTransactions(result.user), result.user, result.query)
        /\ result.op = "getTrends" =>
              result \in DashboardService_getTrends(OwnTransactions(result.user), result.user, result.period)
        /\ result.op = "getCategoryBreakdown" =>
              result \in DashboardService_getCategoryBreakdown(
                            categories, OwnTransactions(result.user), result.user, result.query)

C1_Witness ==
    /\ result # Idle
    /\ result.op = "findAll" /\ result.status = "ok"
    /\ Len(result.data) = 1
    /\ \E t \in transactions : t.userId # result.user /\ Satisfies(t, result.filters)

----------------------------------------------------------------------------
(* SpecNI: two runs side by side. The store serves the requests of both users; the
   shadow store serves the same requests of user u1, with the same inputs and the same
   generated ids, and none of user u2. *)

UserU == "u1"
UserV == "u2"

NiCreateDtos ==
    { [type |-> "expense", amount |-> 10, date |-> d, categoryId |-> c]
        : d \in {D1, D2}, c \in {"c1", "c2"} }

NiUpdateDtos == { [amount |-> 15], [categoryId |-> "c1"] }

NiCategoryDtos == { [name |-> "Pay"] }

NiFilters == { [type |-> "expense"], [categoryId |-> "c1"], [page |-> <<"1">>] }

NiRanges == { [startDate |-> D1, endDate |-> D2], [startDate |-> D2, endDate |-> D2] }

CategoryInputIds == {"c1", "c2"}

\* requests of u2, served by the store only
NiVCreate == (\E dto \in NiCreateDtos : DoCreate(UserV, dto)) /\ UNCHANGED <<shadowVars, pageVars>>

NiVUpdate ==
    (\E id \in RequestIds, dto \in NiUpdateDtos : DoUpdate(id, UserV, dto)) /\ UNCHANGED <<shadowVars, pageVars>>

NiVRemove == (\E id \in RequestIds : DoRemove(id, UserV)) /\ UNCHANGED <<shadowVars, pageVars>>

NiVCategoryUpdate ==
    /\ result = Idle
    /\ \E id \in CategoryInputIds, dto \in NiCategoryDtos :
         LET r == CategoriesService_update(categories, id, UserV, dto)
         IN categories' = r.cats /\ result' = r.res
    /\ UNCHANGED <<transactions, nextTxId>>
    /\ UNCHANGED <<shadowVars, pageVars>>

NiVCategoryRemove ==
    /\ result = Idle
    /\ \E id \in CategoryInputIds :
         LET r == CategoriesService_remove(categories, transactions, id, UserV)
         IN categories' = r.cats /\ result' = r.res
    /\ UNCHANGED <<transactions, nextTxId>>
    /\ UNCHANGED <<shadowVars, pageVars>>

\* requests of u1, served by both stores
NiUCreate ==
    /\ \E dto \in NiCreateDtos :
         /\ DoCreate(UserU, dto)
         /\ LET r == TransactionsService_create(shadowCategories, shadowTransactions, nextTxId, UserU, dto)
            IN shadowTransactions' = r.txs /\ shadowResult' = r.res
    /\ UNCHANGED shadowCategories
    /\ UNCHANGED pageVars

NiURemove ==
    /\ \E id \in RequestIds :
         /\ DoRemove(id, UserU)
         /\ LET r == TransactionsService_remove(shadowTransactions, id, UserU)
            IN shadowTransactions' = r.txs /\ shadowResult' = r.res
    /\ UNCHANGED shadowCategories
    /\ UNCHANGED pageVars

NiUFindOne ==
    /\ \E id \in RequestIds :
         /\ DoFindOne(id, UserU)
         /\ shadowResult' = TransactionsService_findOne(shadowCategories, shadowTransactions, id, UserU)
    /\ UNCHANGED <<shadowCategories, shadowTransactions>>
    /\ UNCHANGED pageVars

NiUGetSummary ==
    /\ \E q \in NiRanges :
         /\ DoGetSummary(UserU, q)
         /\ shadowResult' = DashboardService_getSummary(shadowTransactions, UserU, q)
    /\ UNCHANGED <<shadowCategories, shadowTransactions>>
    /\ UNCHANGED pageVars

NiUCategoryRemove ==
    /\ result = Idle
    /\ \E id \in CategoryInputIds :
         LET r == CategoriesService_remove(categories, transactions, id, UserU)
             sr == CategoriesService_remove(shadowCategories, shadowTransactions, id, UserU)
         IN /\ categories' = r.cats /\ result' = r.res
            /\ shadowCategories' = sr.cats /\ shadowResult' = sr.res
    /\ UNCHANGED <<transactions, nextTxId, shadowTransactions>>
    /\ UNCHANGED pageVars

NiRespond ==
    /\ result # Idle
    /\ result' = Idle
    /\ shadowResult' = Idle
    /\ UNCHANGED storeVars
    /\ UNCHANGED <<shadowCategories, shadowTransactions>>
    /\ UNCHANGED pageVars

NextNI ==
    \/ NiVCreate \/ NiVUpdate \/ NiVRemove \/ NiVCategoryUpdate \/ NiVCategoryRemove
    \/ NiUCreate \/ NiURemove \/ NiUFindOne \/ NiUGetSummary \/ NiUCategoryRemove
    \/ NiRespond

SpecNI == Init /\ [][NextNI]_vars

\* C4: whatever u2 did in between, every request of u1 is answered as in the run without
\* u2's requests: the outcome of each mutation and the result of findOne and getSummary
\* are the same, and findAll, exportToCsv, getTrends and getCategoryBreakdown have the
\* same possible results.
C4_NonInterference ==
    /\ (result # Idle /\ result.user = UserU) => result = shadowResult
    /\ \A f \in NiFilters :
          /\ FindAllResponses(transactions, UserU, f) = FindAllResponses(shadowTransactions, UserU, f)
          /\ ExportResponses(categories, transactions, UserU, f)
                = ExportResponses(shadowCategories, shadowTransactions, UserU, f)
    /\ \A p \in Periods :
          DashboardService_getTrends(transactions, UserU, p)
             = DashboardService_getTrends(shadowTransactions, UserU, p)
    /\ \A q \in NiRanges :
          DashboardService_getCategoryBreakdown(categories, transactions, UserU, q)
             = DashboardService_getCategoryBreakdown(shadowCategories, shadowTransactions, UserU, q)

----------------------------------------------------------------------------
(* SpecUpd: create, update and remove on a store where u1 owns two categories *)

UpdCategories ==
    SeedCategories \cup
      { [id |-> "c3", userId |-> "u1", name |-> "Rent", type |-> "expense", isDefault |-> FALSE] }

InitUpd ==
    /\ categories = UpdCategories
    /\ transactions = {}
    /\ nextTxId = 1
    /\ result = Idle
    /\ shadowCategories = UpdCategories
    /\ shadowTransactions = {}
    /\ shadowResult = Idle
    /\ inProgress = NoneInProgress
    /\ ui = NoPage

UpdCreateDtos ==
    { [type |-> "expense", amount |-> 10, date |-> D1, categoryId |-> "c1"],
      [type |-> "expense", amount |-> 10, date |-> D1, categoryId |-> "c1", description |-> <<"a">>],
      [type |-> "expense", amount |-> 10, date |-> D1, categoryId |-> "c9"] }

\* bodies over every subset of the five properties
UpdUpdateDtos ==
    { Pick([type |-> "income", amount |-> 20, date |-> D2, categoryId |-> "c3", description |-> <<"b">>], ks)
        : ks \in SUBSET TxFields }
    \cup { [amount |-> 15], [date |-> D2T] }

UpdCreate == (\E dto \in UpdCreateDtos : DoCreate(UserU, dto)) /\ UNCHANGED <<shadowVars, pageVars>>

UpdUpdate ==
    (\E u \in Users, id \in RequestIds, dto \in UpdUpdateDtos : DoUpdate(id, u, dto))
    /\ UNCHANGED <<shadowVars, pageVars>>

UpdRemove == (\E u \in Users, id \in RequestIds : DoRemove(id, u)) /\ UNCHANGED <<shadowVars, pageVars>>

NextUpd == UpdCreate \/ UpdUpdate \/ UpdRemove \/ Respond

SpecUpd == InitUpd /\ [][NextUpd]_vars

UpdatedOk(r) == r # Idle /\ r.op = "update" /\ r.status = "ok"

\* the value a body sends for a field, as findOne would have to return it to equal it
SentEquals(f, v, stored) ==
    CASE f = "amount" -> stored * 10 = v
      [] f = "date"   -> stored = v.day /\ ~v.time
      [] OTHER        -> stored = v

\* C11: after a successful update with a body over the fields S, findOne returns the value
\* sent for every field of S and the value before the update for every other field, and
\* id and userId are as before.
C11_PartialUpdate ==
    [][ (result = Idle /\ UpdatedOk(result')) =>
          LET before == TransactionsService_findOne(categories, transactions, result'.id, result'.user)
              after == TransactionsService_findOne(categories', transactions', result'.id, result'.user)
          IN /\ before.status = "ok" /\ after.status = "ok"
             /\ after.row.id = before.row.id
             /\ after.row.userId = before.row.userId
             /\ \A f \in TxFields :
                  IF f \in DOMAIN result'.dto
                    THEN SentEquals(f, result'.dto[f], after.row[f])
                    ELSE after.row[f] = before.row[f]
             /\ after.category.id = after.row.categoryId ]_vars

----------------------------------------------------------------------------
(* Repeated delete and unresolved category, checked under Spec *)

\* ids are handed out in order and never reused, and only remove deletes a row: an id
\* below nextTxId with no row is the id of a transaction that was removed
Removed(id) == id < nextTxId /\ ~(\E t \in transactions : t.id = id)

\* C12: a remove of a transaction that was removed before answers NotFound and leaves
\* both tables as they are.
C12_RepeatedRemoveNotFound ==
    [][ (result = Idle /\ result' # Idle /\ result'.op = "remove" /\ Removed(result'.id)) =>
          /\ result'.status = "NotFound"
          /\ UNCHANGED storeVars ]_vars

C12_Witness ==
    /\ result # Idle /\ result.op = "remove" /\ result.status = "NotFound"
    /\ Removed(result.id)

\* C13: create with a well-formed categoryId that names no category answers NotFound and
\* stores nothing.
C13_UnresolvedCategoryNotFound ==
    [][ ( /\ result = Idle /\ result' # Idle /\ result'.op = "create"
          /\ ValidCreateDto(result'.dto)
          /\ result'.dto.categoryId \notin CategoryIds(categories) ) =>
          /\ result'.status = "NotFound"
          /\ UNCHANGED storeVars ]_vars

----------------------------------------------------------------------------
(* SpecDash: the three dashboard views over transactions of several amounts, types,
   categories and days; u1 owns categories c1 and c3 *)

D4 == [iso |-> TRUE, day |-> 4, time |-> FALSE]
D5 == [iso |-> TRUE, day |-> 5, time |-> FALSE]
D8 == [iso |-> TRUE, day |-> 8, time |-> FALSE]
D32 == [iso |-> TRUE, day |-> 32, time |-> FALSE]

DashCreateDtos ==
    { [type |-> t, amount |-> a, date |-> d, categoryId |-> c]
        : t \in Types, a \in {10, 250}, d \in {D4, D5, D8, D32}, c \in {"c1", "c3"} }

DashOtherDto == [type |-> "income", amount |-> 70, date |-> D5, categoryId |-> "c2"]

DashRanges ==
    { << >>, [startDate |-> D4, endDate |-> D5], [startDate |-> D5, endDate |-> D8],
      [startDate |-> D8, endDate |-> D4], [startDate |-> D5], [endDate |-> D5] }

DashBreakdowns == { [ k \in DOMAIN q \cup ks |-> IF k = "type" THEN t ELSE q[k] ]
                      : q \in DashRanges, t \in Types, ks \in {{}, {"type"}} }

DashCreate ==
    ( \/ \E dto \in DashCreateDtos : DoCreate(UserU, dto)
      \/ DoCreate(UserV, DashOtherDto) )
    /\ UNCHANGED <<shadowVars, pageVars>>

DashGetSummary == (\E u \in Users, q \in DashRanges : DoGetSummary(u, q)) /\ UNCHANGED <<shadowVars, pageVars>>

DashGetTrends == (\E u \in Users, p \in Periods : DoGetTrends(u, p)) /\ UNCHANGED <<shadowVars, pageVars>>

DashGetCategoryBreakdown ==
    (\E u \in Users, q \in DashBreakdowns : DoGetCategoryBreakdown(u, q)) /\ UNCHANGED <<shadowVars, pageVars>>

NextDash == DashCreate \/ DashGetSummary \/ DashGetTrends \/ DashGetCategoryBreakdown \/ Respond

SpecDash == InitUpd /\ [][NextDash]_vars

\* a request that names a date range (both bounds) or no date at all
HasRange(q) == ("startDate" \in DOMAIN q) <=> ("endDate" \in DOMAIN q)

\* the caller's transactions in the range of a request, bounds included
InRangeOf(userId, q) ==
    { t \in transactions :
        /\ t.userId = userId
        /\ "startDate" \in DOMAIN q => t.date >= q.startDate.day
        /\ "endDate" \in DOMAIN q => t.date <= q.endDate.day }

C14_WitnessEmpty ==
    /\ result # Idle /\ result.op = "getSummary"
    /\ "startDate" \in DOMAIN result.query /\ "endDate" \in DOMAIN result.query
    /\ result.transactionCount = 0
    /\ \E t \in transactions : t.userId = result.user

RECURSIVE SumTotals(_)
SumTotals(rows) == IF rows = <<>> THEN 0 ELSE Head(rows).total + SumTotals(Tail(rows))

IsBreakdown(r) == r # Idle /\ r.op = "getCategoryBreakdown"

\* the dates of a breakdown request, as passed to getSummary
DatesOf(q) == [ k \in DOMAIN q \ {"type"} |-> q[k] ]

\* C15: for a type and any startDate / endDate arguments (both, one, none), the totals of
\* the rows of getCategoryBreakdown add up to totalIncome (type income) or totalExpense
\* (type expense) of getSummary for the same user and dates in the same store state.
C15_BreakdownSumsToSummary ==
    (IsBreakdown(result) /\ "type" \in DOMAIN result.query) =>
        LET summary == DashboardService_getSummary(transactions, result.user, DatesOf(result.query))
        IN SumTotals(result.breakdown) =
              (IF result.query.type = "income" THEN summary.totalIncome ELSE summary.totalExpense)

C15_Witness ==
    /\ IsBreakdown(result) /\ "type" \in DOMAIN result.query
    /\ "startDate" \in DOMAIN result.query /\ "endDate" \in DOMAIN result.query
    /\ Len(result.breakdown) = 1
    /\ \E t \in transactions :
          t.userId = result.user /\ t.type # result.query.type /\ t \in InRangeOf(result.user, result.query)

\* the caller's transactions a breakdown request is about: of the type asked for, if any,
\* and in the date range
BreakdownMatching(userId, q) ==
    { t \in InRangeOf(userId, q) : "type" \in DOMAIN q => t.type = q.type }

C16_WitnessOrder ==
    /\ IsBreakdown(result) /\ HasRange(result.query)
    /\ Len(result.breakdown) = 2
    /\ result.breakdown[1].total > result.breakdown[2].total

IsTrends(r) == r # Idle /\ r.op = "getTrends"

\* the bucket of a day: the day itself, the month of the year, and for weekly the week as
\* getTrends numbers it (which weeks these are is the matter of C18)
BucketOf(period, day) ==
    CASE period = "daily"   -> day
      [] period = "monthly" -> (IF day <= 31 THEN 1 ELSE IF day <= 59 THEN 2 ELSE MonthOf(day))
      [] OTHER              -> Bucket("weekly", day)

\* C17: getTrends returns one {period, type, total} tuple for each (bucket, type) pair in
\* which the caller has a transaction and no other tuple, total being the sum of the
\* amounts of the caller's transactions of that bucket and type, whatever their category
\* and date, in ascending order of period.
C17_TrendsPerBucketAndType ==
    IsTrends(result) =>
        LET own == OwnTransactions(result.user)
            tr == result.trends
        IN /\ result.status = "ok"
           /\ { <<tr[i].period, tr[i].type>> : i \in 1..Len(tr) }
                = { <<BucketOf(result.period, t.date), t.type>> : t \in own }
           /\ \A i, j \in 1..Len(tr) :
                i # j => <<tr[i].period, tr[i].type>> # <<tr[j].period, tr[j].type>>
           /\ \A i \in 1..Len(tr) :
                tr[i].total = SumAmount({ t \in own : /\ BucketOf(result.period, t.date) = tr[i].period
                                                      /\ t.type = tr[i].type })
           /\ SumTotals(tr) = SumAmount(own)
           /\ \A i, j \in 1..Len(tr) : i < j => tr[i].period <= tr[j].period

\* an income and an expense of one day, of two categories: two tuples of one period
C17_Witness ==
    /\ IsTrends(result) /\ result.period = "daily"
    /\ Len(result.trends) = 2
    /\ result.trends[1].period = result.trends[2].period
    /\ \E t1, t2 \in OwnTransactions(result.user) : t1.categoryId # t2.categoryId

\* a January and a February transaction: two monthly buckets in order
C17_WitnessMonths ==
    /\ IsTrends(result) /\ result.period = "monthly"
    /\ Len(result.trends) = 2
    /\ result.trends[1].period < result.trends[2].period

\* the ISO week of a day of 2026: weeks run Monday to Sunday and 1 January 2026 is a
\* Thursday, so week 1 ends on 4 January
IsoWeek(day) == ((day + 2) \div 7) + 1

\* C18: with period weekly, two transactions of the caller are counted in the same bucket
\* exactly when their dates are in the same ISO week.
C18_WeeklyIsIsoWeek ==
    (IsTrends(result) /\ result.period = "weekly") =>
        \A t1, t2 \in OwnTransactions(result.user) :
            (\E i \in 1..Len(result.trends) :
                /\ result.trends[i].period = Bucket("weekly", t1.date)
                /\ result.trends[i].period = Bucket("weekly", t2.date))
            <=> IsoWeek(t1.date) = IsoWeek(t2.date)

----------------------------------------------------------------------------
(* exportToCsv and the page of the request, checked under SpecQuery *)

IsExport(r) == r # Idle /\ r.op = "exportToCsv"

\* the criteria of a request: its filters without page and limit
CriteriaOf(f) == [ k \in DOMAIN f \ {"page", "limit"} |-> f[k] ]

\* C19: whatever page and limit a request carries, exportToCsv succeeds and exports the
\* rows it exports for the same criteria without page and limit, which are all the
\* caller's transactions the criteria select.
C19_ExportIgnoresPaging ==
    IsExport(result) =>
        /\ result.status = "ok"
        /\ { result.rows[i] : i \in 1..Len(result.rows) }
             = FindAllRows(transactions, result.user, CriteriaOf(result.filters))

----------------------------------------------------------------------------
(* SpecCsv: exports of transactions whose descriptions hold commas, line breaks and
   double quotes *)

CsvDescriptions == { <<"a">>, <<"a", ",", "b">>, <<"a", "\n", "b">>, <<"a", "\"", "b">> }

CsvCreateDtos ==
    { [type |-> "expense", amount |-> 10, date |-> d, categoryId |-> "c1"] : d \in {D1, D2} }
    \cup { [type |-> "expense", amount |-> 10, date |-> d, categoryId |-> "c1", description |-> x]
             : d \in {D1, D2}, x \in CsvDescriptions }

CsvFilters == { << >>, [limit |-> <<"1">>], [startDate |-> D2], [page |-> <<"1">>, type |-> "expense"] }

CsvCreate ==
    ( \/ \E dto \in CsvCreateDtos : DoCreate(UserU, dto)
      \/ DoCreate(UserV, DashOtherDto) )
    /\ UNCHANGED <<shadowVars, pageVars>>

CsvExport == (\E u \in Users, f \in CsvFilters : DoExportToCsv(u, f)) /\ UNCHANGED <<shadowVars, pageVars>>

NextCsv == CsvCreate \/ CsvExport \/ Respond

SpecCsv == Init /\ [][NextCsv]_vars

\* reading CSV text: the pieces between the separators that stand outside double quotes
RECURSIVE Pieces(_, _, _, _)
Pieces(text, sep, inQuotes, cur) ==
    IF text = <<>> THEN <<cur>>
    ELSE IF Head(text) = "\"" THEN Pieces(Tail(text), sep, ~inQuotes, Append(cur, Head(text)))
    ELSE IF Head(text) = sep /\ ~inQuotes THEN <<cur>> \o Pieces(Tail(text), sep, FALSE, <<>>)
    ELSE Pieces(Tail(text), sep, inQuotes, Append(cur, Head(text)))

\* the records of a text, each ended by a line break
CsvRecords(text) ==
    LET p == Pieces(text, "\n", FALSE, <<>>)
    IN IF p[Len(p)] = <<>> THEN SubSeq(p, 1, Len(p) - 1) ELSE p

CsvFields(record) == Pieces(record, ",", FALSE, <<>>)

RECURSIVE Unescape(_)
Unescape(s) ==
    IF s = <<>> THEN <<>>
    ELSE IF Len(s) >= 2 /\ s[1] = "\"" /\ s[2] = "\"" THEN <<"\"">> \o Unescape(Tail(Tail(s)))
    ELSE <<Head(s)>> \o Unescape(Tail(s))

\* the value of a field: the text between its quotes when it is quoted
FieldValue(field) ==
    IF Len(field) >= 2 /\ field[1] = "\"" /\ field[Len(field)] = "\""
      THEN Unescape(SubSeq(field, 2, Len(field) - 1))
      ELSE field

\* C20: the output of exportToCsv reads as the header record Date,Type,Category,Amount,
\* Description followed by one record for each of the N matching transactions, N + 1
\* records in all, in non-increasing date order, the record of a transaction holding its
\* date, type, category name, amount and description.
C20_CsvRecords ==
    (IsExport(result) /\ result.status = "ok") =>
        LET recs == CsvRecords(result.csv)
            rows == result.rows
            n == Cardinality(FindAllRows(transactions, result.user, CriteriaOf(result.filters)))
        IN /\ Len(rows) = n
           /\ Len(recs) = n + 1
           /\ CsvFields(recs[1]) = << <<"Date">>, <<"Type">>, <<"Category">>, <<"Amount">>, <<"Description">> >>
           /\ \A i, j \in 1..n : i < j => rows[i].date >= rows[j].date
           /\ \A k \in 1..n :
                LET f == CsvFields(recs[k + 1])
                    t == rows[k]
                IN /\ Len(f) = 5
                   /\ f[1] = <<DateText(t.date)>>
                   /\ f[2] = <<t.type>>
                   /\ f[3] = <<CategoryOf(categories, t.categoryId).name>>
                   /\ f[4] = <<AmountText(t.amount)>>
                   /\ FieldValue(f[5]) = (IF t.description = Null THEN <<>> ELSE t.description)

----------------------------------------------------------------------------
(* Frame of create, update and remove, checked under Spec *)

IsMutation(r) == r # Idle /\ r.op \in {"create", "update", "remove"}

\* the rows of a table other than the row with the id
OtherRows(txs, id) == { t \in txs : t.id # id }

\* C21: a successful create adds one transaction and nothing else changes; a successful
\* update changes at most the transaction it names; a successful remove deletes exactly
\* the transaction it names; no create, update or remove touches a category or another
\* transaction, and a failed one changes neither table.
C21_MutationFrame ==
    [][ (result = Idle /\ IsMutation(result')) =>
          /\ categories' = categories
          /\ result'.status # "ok" => transactions' = transactions
          /\ (result'.status = "ok" /\ result'.op = "create") =>
                /\ transactions \subseteq transactions'
                /\ Cardinality(transactions') = Cardinality(transactions) + 1
                /\ \A t \in transactions' \ transactions :
                      t.id = result'.id /\ ~(\E o \in transactions : o.id = t.id)
          /\ (result'.status = "ok" /\ result'.op = "update") =>
                /\ OtherRows(transactions', result'.id) = OtherRows(transactions, result'.id)
                /\ Cardinality(transactions') = Cardinality(transactions)
                /\ \E t \in transactions' : t.id = result'.id /\ t.userId = result'.user
          /\ (result'.status = "ok" /\ result'.op = "remove") =>
                /\ transactions' = OtherRows(transactions, result'.id)
                /\ Cardinality(transactions') = Cardinality(transactions) - 1 ]_vars

\* a transaction of each user, and the update of one of them answered
C21_Witness ==
    /\ result # Idle /\ result.op = "update" /\ result.status = "ok"
    /\ \E t \in transactions : t.userId # result.user
    /\ \E t \in transactions : t.id = result.id /\ t.amount = 2

----------------------------------------------------------------------------
(* SpecCat: the categories of both users, one of them a default category of u1 (as the
   seed rows of the schema are), under create, update and remove *)

CatCategories ==
    SeedCategories \cup
      { [id |-> "c4", userId |-> "u1", name |-> "Other", type |-> "expense", isDefault |-> TRUE] }

InitCat ==
    /\ categories = CatCategories
    /\ transactions = {}
    /\ nextTxId = 1
    /\ result = Idle
    /\ shadowCategories = CatCategories
    /\ shadowTransactions = {}
    /\ shadowResult = Idle
    /\ inProgress = NoneInProgress
    /\ ui = NoPage

\* ids for the categories created in a run: a new category takes the first one not in the table
NewCategoryIds == <<"n1", "n2">>

CatBodies ==
    { [name |-> "Pay"], [type |-> "income"], [name |-> "Pay", type |-> "income"],
      [name |-> ""], [isDefault |-> FALSE], [name |-> "Pay", type |-> "income", isDefault |-> TRUE] }

CatIds == {"c1", "c2", "c4", "n1"}

CatCreate ==
    /\ result = Idle
    /\ \E k \in 1..Len(NewCategoryIds) :
         /\ NewCategoryIds[k] \notin CategoryIds(categories)
         /\ \A j \in 1..(k - 1) : NewCategoryIds[j] \in CategoryIds(categories)
         /\ \E u \in Users, dto \in CatBodies :
              LET r == CategoriesService_create(categories, NewCategoryIds[k], u, dto)
              IN categories' = r.cats /\ result' = r.res
    /\ UNCHANGED <<transactions, nextTxId>>
    /\ UNCHANGED <<shadowVars, pageVars>>

CatUpdate ==
    /\ result = Idle
    /\ \E u \in Users, id \in CatIds, dto \in CatBodies :
         LET r == CategoriesService_update(categories, id, u, dto)
         IN categories' = r.cats /\ result' = r.res
    /\ UNCHANGED <<transactions, nextTxId>>
    /\ UNCHANGED <<shadowVars, pageVars>>

CatRemove ==
    /\ result = Idle
    /\ \E u \in Users, id \in CatIds :
         LET r == CategoriesService_remove(categories, transactions, id, u)
         IN categories' = r.cats /\ result' = r.res
    /\ UNCHANGED <<transactions, nextTxId>>
    /\ UNCHANGED <<shadowVars, pageVars>>

CatTxCreate ==
    (\E dto \in { [type |-> "expense", amount |-> 10, date |-> D1, categoryId |-> c]
                    : c \in {"c1", "c4"} } : DoCreate(UserU, dto))
    /\ UNCHANGED <<shadowVars, pageVars>>

NextCat == CatCreate \/ CatUpdate \/ CatRemove \/ CatTxCreate \/ Respond

SpecCat == InitCat /\ [][NextCat]_vars

IsCategoryChange(r) == r # Idle /\ r.op \in {"categories.update", "categories.remove"}

\* C22: update (with a body that passes validation) and remove, called by the owner on a
\* default category, answer Forbidden and leave the category as it is; and no step
\* changes or deletes a default category.
C22_DefaultCategoryKept ==
    [][ /\ \A c \in categories : c.isDefault => c \in categories'
        /\ ( /\ result = Idle /\ IsCategoryChange(result')
             /\ (result'.op = "categories.update" => ValidCategoryDto(result'.dto))
             /\ \E c \in categories :
                   c.id = result'.id /\ c.userId = result'.user /\ c.isDefault ) =>
              /\ result'.status = "Forbidden"
              /\ categories' = categories ]_vars

C22_Witness ==
    /\ result # Idle /\ result.op = "categories.remove" /\ result.status = "Forbidden"
    /\ \E c \in categories : c.id = result.id /\ c.isDefault /\ c.userId = result.user
    /\ ~(\E c \in categories : c.id = "c1")

----------------------------------------------------------------------------
(* SpecRace: update as the two steps it is made of, findOne and save, with other
   requests served in between. inProgress holds, for each update that has done its
   findOne, the entity it loaded and the body it will assign. *)

RaceRequests == {"A", "B"}

RaceCreateDtos == { [type |-> "expense", amount |-> 10, date |-> D1, categoryId |-> "c1"] }

RaceUpdateDtos == { [amount |-> 20], [description |-> <<"b">>], [categoryId |-> "c3"] }

RaceCreate == (\E dto \in RaceCreateDtos : DoCreate(UserU, dto)) /\ UNCHANGED <<shadowVars, pageVars>>

\* update, first half: validation, then findOne (NotFound ends the request)
RaceUpdateFindOne ==
    /\ result = Idle
    /\ \E r \in RaceRequests, id \in RequestIds, dto \in RaceUpdateDtos :
         /\ ~(\E p \in inProgress : p.req = r)
         /\ IF ValidUpdateDto(dto) /\ FindOneRows(transactions, id, UserU) # {}
              THEN /\ inProgress' = inProgress \cup
                        { [req |-> r, id |-> id, user |-> UserU, dto |-> dto,
                           entity |-> CHOOSE t \in FindOneRows(transactions, id, UserU) : TRUE] }
                   /\ result' = result
              ELSE /\ result' = TransactionsService_update(categories, transactions, id, UserU, dto, "c1").res
                   /\ inProgress' = inProgress
    /\ UNCHANGED <<storeVars, shadowVars, ui>>

\* what save(entity) leaves in the table: save reads the row with the entity's id and
\* updates it to the entity's values, or inserts the entity when there is no such row
SavedRows(txs, entity) == OtherRows(txs, entity.id) \cup {entity}

\* update, second half: Object.assign and save
RaceUpdateSave ==
    /\ result = Idle
    /\ \E p \in inProgress :
         /\ inProgress' = inProgress \ {p}
         /\ \E fk \in SavedCategoryIds(p.entity, p.dto) :
              IF fk \notin CategoryIds(categories)
                THEN /\ transactions' = transactions
                     /\ result' = [op |-> "update", user |-> p.user, id |-> p.id,
                                   status |-> "InternalError", dto |-> p.dto]
                ELSE /\ transactions' = SavedRows(transactions, [Assign(p.entity, p.dto) EXCEPT !.categoryId = fk])
                     /\ result' = [op |-> "update", user |-> p.user, id |-> p.id,
                                   status |-> "ok", dto |-> p.dto]
    /\ UNCHANGED <<categories, nextTxId, shadowVars, ui>>

RaceRemove == (\E id \in RequestIds : DoRemove(id, UserU)) /\ UNCHANGED <<shadowVars, pageVars>>

NextRace == RaceCreate \/ RaceUpdateFindOne \/ RaceUpdateSave \/ RaceRemove \/ Respond

SpecRace == InitUpd /\ [][NextRace]_vars

\* C23: a transaction that was removed is in no later state, whatever update of it was
\* in progress when it was removed.
C23_RemovedStaysRemoved ==
    [][ \A id \in TxIds : Removed(id) => ~(\E t \in transactions' : t.id = id) ]_vars

\* C25: with updates interleaved in any way, the save of an update leaves every field
\* its body does not name as it was in the table just before the save.
C25_SaveKeepsOtherFields ==
    [][ (result = Idle /\ UpdatedOk(result')) =>
          \A t \in transactions : t.id = result'.id =>
              \E n \in transactions' :
                  /\ n.id = t.id
                  /\ \A f \in TxFields \ DOMAIN result'.dto : n[f] = t[f] ]_vars

\* C24: a successful update whose body names a category other than the transaction's
\* leaves the transaction stored with the named category, and findOne returns it with
\* that categoryId and that category as its relation.
C24_CategoryChangeStored ==
    [][ ( /\ result = Idle /\ UpdatedOk(result')
          /\ "categoryId" \in DOMAIN result'.dto
          /\ \E t \in transactions : t.id = result'.id /\ t.categoryId # result'.dto.categoryId ) =>
          LET after == TransactionsService_findOne(categories', transactions', result'.id, result'.user)
          IN /\ after.status = "ok"
             /\ after.row.categoryId = result'.dto.categoryId
             /\ after.category.id = result'.dto.categoryId ]_vars

\* C26: whichever of startDate and endDate a request carries (both, one or none),
\* transactionCount of getSummary is total of findAll for the same user and dates.
C26_SummaryCountIsListTotal ==
    (result # Idle /\ result.op = "getSummary") =>
        \A r \in FindAllResponses(transactions, result.user, result.query) :
            r.status = "ok" /\ r.total = result.transactionCount

\* C27: for every page and limit the validation of the filters accepts, findAll either
\* fails with a validation error or answers with page >= 1, limit >= 1, a skip of at
\* least 0 and a totalPages that is a finite integer of at least 0.
C27_PagingWellFormed ==
    (result # Idle /\ result.op = "findAll") =>
        \/ result.status = "ValidationError"
        \/ /\ result.status = "ok"
           /\ result.page >= 1
           /\ result.limit >= 1
           /\ (result.page - 1) * result.limit >= 0
           /\ IsFinite(result.totalPages)
           /\ result.totalPages.num >= 0

----------------------------------------------------------------------------
(* SpecList: the transactions list page of user UserU in a browser, over the service.
   ui holds the page's React state (filters, transactions, total, totalPages, loading),
   the list requests sent and not yet answered (pending), the deletions confirmed and
   not yet answered (deleting), and for the rows displayed the request they answer
   (shown). A request is marked latest while no list request was sent after it.
   At most MaxInFlight requests of the page are unanswered at a time. *)

MaxPage == 3
MaxInFlight == 2
ListLimit == 10

\* a number as the HTTP client writes it into the query string
RECURSIVE NumberText(_)
NumberText(n) == IF n < 10 THEN <<ToString(n)>> ELSE NumberText(n \div 10) \o <<ToString(n % 10)>>

\* the query string of transactionsApi.getAll(filters): undefined properties are left out
QueryOf(filters) ==
    LET paging == [page |-> NumberText(filters.page), limit |-> NumberText(filters.limit)]
    IN IF filters.type = "" THEN paging
       ELSE [ k \in {"page", "limit", "type"} |-> IF k = "type" THEN filters.type ELSE paging[k] ]

\* loadTransactions() up to its await: setLoading(true) and the request with the
\* filters of the render the function belongs to
LoadTransactions(page, filters) ==
    [page EXCEPT !.loading = TRUE,
                 !.pending = { [q EXCEPT !.latest = FALSE] : q \in page.pending }
                             \cup { [filters |-> filters, latest |-> TRUE] }]

\* the page after its first render and effect
ListMounted ==
    LoadTransactions(
        [page |-> "list", filters |-> [page |-> 1, limit |-> ListLimit, type |-> ""],
         transactions |-> <<>>, total |-> 0, totalPages |-> 0, loading |-> TRUE,
         pending |-> {}, deleting |-> {}, shown |-> [filters |-> << >>, latest |-> TRUE]],
        [page |-> 1, limit |-> ListLimit, type |-> ""])

InitList == InitStore /\ shadowCategories = SeedCategories /\ shadowTransactions = {}
            /\ shadowResult = Idle /\ inProgress = NoneInProgress /\ ui = ListMounted

\* setFilters(next) followed by the effect on [filters]
SetFilters(next) ==
    /\ Cardinality(ui.pending) + Cardinality(ui.deleting) < MaxInFlight
    /\ ui' = LoadTransactions([ui EXCEPT !.filters = next], next)
    /\ UNCHANGED <<storeVars, result, shadowVars, inProgress>>

ListCreateDtos == { [type |-> "expense", amount |-> 10, date |-> D1, categoryId |-> "c1"] }

\* transactions of the user added from elsewhere (the new-transaction page)
ListCreate == (\E dto \in ListCreateDtos : DoCreate(UserU, dto)) /\ UNCHANGED <<shadowVars, pageVars>>

\* a list request is answered: the rest of loadTransactions
ListResponse ==
    /\ \E p \in ui.pending : \E r \in FindAllResponses(transactions, UserU, QueryOf(p.filters)) :
         ui' = IF r.status = "ok"
                 THEN [ui EXCEPT !.transactions = r.data, !.total = r.total,
                                 !.totalPages = r.totalPages.num, !.loading = FALSE,
                                 !.pending = @ \ {p}, !.shown = p]
                 ELSE [ui EXCEPT !.loading = FALSE, !.pending = @ \ {p}]
    /\ UNCHANGED <<storeVars, result, shadowVars, inProgress>>

\* the Previous button: rendered when not loading, disabled on page 1
ListPrevious ==
    /\ ~ui.loading
    /\ ~(ui.filters.page = 0 \/ ui.filters.page = 1)
    /\ SetFilters([ui.filters EXCEPT !.page = @ - 1])

\* the Next button: rendered when not loading, disabled when page === totalPages
ListNext ==
    /\ ~ui.loading
    /\ ui.filters.page # ui.totalPages
    /\ ui.filters.page < MaxPage
    /\ SetFilters([ui.filters EXCEPT !.page = @ + 1])

\* handleFilterChange('type', value)
ListFilterChange ==
    \E v \in {"", "income", "expense"} :
        /\ v # ui.filters.type
        /\ SetFilters([ui.filters EXCEPT !.type = v, !.page = 1])

\* handleDelete(id) up to its await, on a row displayed
ListDeleteClick ==
    /\ ~ui.loading
    /\ Cardinality(ui.pending) + Cardinality(ui.deleting) < MaxInFlight
    /\ \E k \in 1..Len(ui.transactions) :
         ui' = [ui EXCEPT !.deleting = @ \cup { [id |-> ui.transactions[k].id, filters |-> ui.filters] }]
    /\ UNCHANGED <<storeVars, result, shadowVars, inProgress>>

\* the DELETE is served and answered: on success handleDelete calls the
\* loadTransactions of the render in which the button was clicked
ListDeleteDone ==
    /\ \E d \in ui.deleting :
         LET r == TransactionsService_remove(transactions, d.id, UserU)
             left == [ui EXCEPT !.deleting = @ \ {d}]
         IN /\ transactions' = r.txs
            /\ ui' = IF r.res.status = "ok" THEN LoadTransactions(left, d.filters) ELSE left
    /\ UNCHANGED <<categories, nextTxId, result, shadowVars, inProgress>>

NextList == ListCreate \/ ListResponse \/ ListPrevious \/ ListNext \/ ListFilterChange
            \/ ListDeleteClick \/ ListDeleteDone \/ Respond

SpecList == InitList /\ [][NextList]_vars

\* C28: on the list page filters.page is never below 1 nor above max(1, totalPages);
\* whenever Next can be used (the pagination is rendered and page differs from
\* totalPages) the list is not empty and the page is before the last; every filter
\* change sets the page to 1.
C28_PageInRange ==
    /\ [](/\ ui.filters.page >= 1
          /\ ui.filters.page <= Max2(1, ui.totalPages)
          /\ (~ui.loading /\ ui.filters.page # ui.totalPages) =>
                (ui.totalPages # 0 /\ ui.filters.page < ui.totalPages))
    /\ [][ ui.filters.type # ui'.filters.type => ui'.filters.page = 1 ]_vars

\* C29: whenever no list request is pending, the rows, total and totalPages displayed
\* are those of the answer to the request sent for the current filters, the last sent.
C29_DisplayedIsCurrent ==
    ui.pending = {} => (ui.shown.latest /\ ui.shown.filters = ui.filters)

----------------------------------------------------------------------------
(* SpecNew: the new-transaction page of user UserU. ui holds the page's React state
   (type, categoryId, categories) and the category requests sent and not yet answered
   (loads), each with the type and the categoryId of the render that sent it. *)

NewCategories ==
    UpdCategories \cup
      { [id |-> "c5", userId |-> "u1", name |-> "Pay", type |-> "income", isDefault |-> FALSE] }

\* the category names of the model in ascending order
NameOrder == <<"Food", "Other", "Pay", "Rent", "Salary">>

NameRank(name) == CHOOSE k \in 1..Len(NameOrder) : NameOrder[k] = name

\* CategoriesService.findAll(userId, type): the user's categories, of the type when one
\* is given, ordered by name
CategoriesService_findAll(cats, userId, type) ==
    LET rows == { c \in cats : c.userId = userId /\ (type # "" => c.type = type) }
    IN CHOOSE l \in [1..Cardinality(rows) -> rows] :
           \A i, j \in 1..Cardinality(rows) : i < j => NameRank(l[i].name) < NameRank(l[j].name)

\* the page after its first render and effect
NewMounted ==
    [page |-> "new", type |-> "expense", categoryId |-> "", categories |-> <<>>,
     loads |-> { [type |-> "expense", categoryId |-> ""] }]

InitNew ==
    /\ categories = NewCategories /\ transactions = {} /\ nextTxId = 1 /\ result = Idle
    /\ shadowCategories = NewCategories /\ shadowTransactions = {} /\ shadowResult = Idle
    /\ inProgress = NoneInProgress /\ ui = NewMounted

\* the Type select: setType, then the effect on [type] calls loadCategories
NewSetType ==
    /\ \E v \in Types :
         /\ v # ui.type
         /\ ui' = [ui EXCEPT !.type = v,
                             !.loads = @ \cup { [type |-> v, categoryId |-> ui.categoryId] }]
    /\ UNCHANGED <<storeVars, result, shadowVars, inProgress>>

\* a category request is answered: the rest of loadCategories
NewCategoriesResponse ==
    /\ \E l \in ui.loads :
         LET data == CategoriesService_findAll(categories, UserU, l.type)
         IN ui' = [ui EXCEPT !.categories = data,
                             !.categoryId = IF Len(data) > 0 /\ l.categoryId = ""
                                              THEN data[1].id ELSE @,
                             !.loads = @ \ {l}]
    /\ UNCHANGED <<storeVars, result, shadowVars, inProgress>>

\* the Category select: one of the options, which are the categories loaded
NewSelectCategory ==
    /\ \E k \in 1..Len(ui.categories) : ui' = [ui EXCEPT !.categoryId = ui.categories[k].id]
    /\ UNCHANGED <<storeVars, result, shadowVars, inProgress>>

\* handleSubmit, the required Category select showing an option
NewSubmit ==
    /\ Len(ui.categories) > 0
    /\ DoCreate(UserU, [type |-> ui.type, amount |-> 10, date |-> D1, categoryId |-> ui.categoryId])
    /\ UNCHANGED <<shadowVars, pageVars>>

NextNew == NewSetType \/ NewCategoriesResponse \/ NewSelectCategory \/ NewSubmit \/ Respond

SpecNew == InitNew /\ [][NextNew]_vars

\* C30: the categoryId that handleSubmit sends is the id of a category in the list
\* loaded, and that list is the one of the type selected.
C30_SubmittedCategoryOfType ==
    [][ (result = Idle /\ result' # Idle /\ result'.op = "create") =>
          \E k \in 1..Len(ui.categories) :
              /\ ui.categories[k].id = result'.dto.categoryId
              /\ ui.categories[k].type = result'.dto.type ]_vars

====
